---- MODULE Spec2Model ----
(***************************************************************************)
(* Model of notr's SyncService (src/notr/sync.py): one call of             *)
(* SyncService.sync, step by step, against a local store, a backend and a  *)
(* temporary workspace.                                                    *)
(*                                                                         *)
(* A store has a main file (what _file_digest, upload and replace_with     *)
(* read) and a logical content (main file plus write-ahead log); the two   *)
(* agree after checkpoint().  File contents are records                    *)
(*   [data, last_sync_at, last_sync_direction];                            *)
(* an Optional value is a sequence of length 0 (None / missing file) or 1. *)
(* Text is a sequence of one-character strings.                            *)
(***************************************************************************)
EXTENDS Integers, Sequences, FiniteSets, TLC

\* ------------------------------------------------------------------ bounds
MaxData == 1
MaxChanges == 1
MaxMerged == 3
MaxDeleted == 1

\* 0 is the content of a freshly initialised (empty) store
Data == 0..MaxData
Directions == {"PULL", "PUSH", "BOTH"}

None == <<>>
Some(x) == <<x>>

\* ------------------------------------------------------------------ text
LowerLetters ==
  <<"a","b","c","d","e","f","g","h","i","j","k","l","m",
    "n","o","p","q","r","s","t","u","v","w","x","y","z">>
UpperLetters ==
  <<"A","B","C","D","E","F","G","H","I","J","K","L","M",
    "N","O","P","Q","R","S","T","U","V","W","X","Y","Z">>
DigitChars == <<"0","1","2","3","4","5","6","7","8","9">>

Upper(c) ==
  IF \E i \in 1..26 : LowerLetters[i] = c
  THEN UpperLetters[CHOOSE i \in 1..26 : LowerLetters[i] = c]
  ELSE c

Lower(c) ==
  IF \E i \in 1..26 : UpperLetters[i] = c
  THEN LowerLetters[CHOOSE i \in 1..26 : UpperLetters[i] = c]
  ELSE c

\* str.capitalize(): first character upper-cased, all the others lower-cased
Capitalize(s) ==
  IF s = <<>> THEN s
  ELSE <<Upper(s[1])>> \o [i \in 1..(Len(s) - 1) |-> Lower(s[i + 1])]

\* f"{n}" for a non-negative integer
RECURSIVE Str(_)
Str(n) ==
  IF n < 10 THEN <<DigitChars[n + 1]>>
  ELSE Str(n \div 10) \o <<DigitChars[(n % 10) + 1]>>

\* sep.join(parts)
RECURSIVE Join(_, _)
Join(sep, parts) ==
  IF parts = <<>> THEN <<>>
  ELSE IF Len(parts) = 1 THEN parts[1]
  ELSE parts[1] \o sep \o Join(sep, Tail(parts))

UploadedClause ==
  <<"u","p","l","o","a","d","e","d"," ","c","h","a","n","g","e","s">>
DownloadedClause ==
  <<"d","o","w","n","l","o","a","d","e","d"," ","c","h","a","n","g","e","s">>
MergedClause(n) ==
  <<"m","e","r","g","e","d"," ">> \o Str(n) \o <<" ","n","o","t","e","s">>
DeletedClause(n) ==
  <<"p","r","o","p","a","g","a","t","e","d"," ">> \o Str(n)
    \o <<" ","d","e","l","e","t","i","o","n","s">>
NoChangesDetected ==
  <<"N","o"," ","c","h","a","n","g","e","s"," ","d","e","t","e","c","t","e","d">>
CommaSpace == <<",", " ">>

\* a bug that reports the deletions before the merged notes
format_message_reordered(stats, uploaded, downloaded) ==
  LET p1 == IF uploaded THEN <<UploadedClause>> ELSE <<>>
      p2 == IF downloaded THEN <<DownloadedClause>> ELSE <<>>
      p3 == IF stats.notes_deleted # 0
              THEN <<DeletedClause(stats.notes_deleted)>> ELSE <<>>
      p4 == IF stats.notes_merged # 0
              THEN <<MergedClause(stats.notes_merged)>> ELSE <<>>
      parts == p1 \o p2 \o p3 \o p4
  IN  IF parts = <<>> THEN NoChangesDetected
      ELSE Capitalize(Join(CommaSpace, parts))

\* SyncService._format_message
format_message(stats, uploaded, downloaded) ==
  LET p1 == IF uploaded THEN <<UploadedClause>> ELSE <<>>
      p2 == IF downloaded THEN <<DownloadedClause>> ELSE <<>>
      p3 == IF stats.notes_merged # 0
              THEN <<MergedClause(stats.notes_merged)>> ELSE <<>>
      p4 == IF stats.notes_deleted # 0
              THEN <<DeletedClause(stats.notes_deleted)>> ELSE <<>>
      parts == p1 \o p2 \o p3 \o p4
  IN  IF parts = <<>> THEN NoChangesDetected
      ELSE Capitalize(Join(CommaSpace, parts))

\* ------------------------------------------------------------------ digest
\* SHA-256 of a file's bytes, taken to be collision-free
Sha256(bytes) == <<"sha256", bytes.data, bytes.last_sync_at, bytes.last_sync_direction>>

\* SyncService._file_digest: None when the path does not exist
file_digest(path) == IF path = None THEN None ELSE Some(Sha256(path[1]))

\* ------------------------------------------------------------------ stores
\* DatabaseManager.set_metadata(key, value)
set_metadata(db, key, value) == [db EXCEPT ![key] = value]

\* DatabaseManager.replace_with(path): the whole content of the store, its
\* metadata included, becomes the content of the file at path
replace_with(db, path) == path[1]

\* current_timestamp(): the time of the call, later than any stored timestamp
current_timestamp == "now"

\* what ensure_initialized() leaves in a file that did not exist
EmptyStore ==
  [data |-> 0, last_sync_at |-> "unset", last_sync_direction |-> "unset"]

\* contents a store file can have when sync is called: never synced, or
\* synced at an earlier time in one of the three ways
StoreContents ==
  { [data |-> d, last_sync_at |-> "unset", last_sync_direction |-> "unset"] :
      d \in Data }
  \cup
  { [data |-> d, last_sync_at |-> "earlier", last_sync_direction |-> s] :
      d \in Data, s \in {"upload", "download", "noop"} }

\* MergeStats
ZeroStats ==
  [local_changes |-> 0, remote_changes |-> 0, notes_merged |-> 0, notes_deleted |-> 0]
\* each counter is either 0 or its bound
MergeStats ==
  [local_changes : {0, MaxChanges}, remote_changes : {0, MaxChanges},
   notes_merged : {0, MaxMerged}, notes_deleted : {0, MaxDeleted}]

\* ------------------------------------------------------------------ decisions
\* a bug that lets a pull go on without a remote snapshot
pull_without_remote_never(dir, exists) == FALSE

\* sync.py line 45: direction == PULL and not remote_exists
pull_without_remote(dir, exists) == dir = "PULL" /\ ~exists

\* a bug that counts a merge as a download only from the second change on
downloaded_after_merge_strict(st) == st.local_changes > 1

\* sync.py line 72: downloaded = stats.local_changes > 0
downloaded_after_merge(st) == st.local_changes > 0

\* a bug that forgets that a missing remote must be created
remote_changed_counts_only(st, exists) == st.remote_changes > 0

\* sync.py line 81
remote_changed(st, exists) == st.remote_changes > 0 \/ ~exists

\* a bug that uploads on every BOTH call, changed or not
should_upload_both_always(dir, st, exists) == dir \in {"PUSH", "BOTH"}

\* a bug that lets PUSH upload only when the remote changed
should_upload_only_changes(dir, st, exists) ==
  /\ dir \in {"PUSH", "BOTH"}
  /\ remote_changed(st, exists)

\* sync.py lines 80-82: the condition under which backend.upload is called
should_upload(dir, st, exists) ==
  /\ dir \in {"PUSH", "BOTH"}
  /\ (remote_changed(st, exists) \/ dir = "PUSH")

\* a bug that replaces the local store whenever a remote snapshot exists
fallback_replace_any_digest(dl, dir, exists, rdigest, ldigest) ==
  /\ ~dl
  /\ dir \in {"PULL", "BOTH"}
  /\ exists
  /\ rdigest # None

\* a bug that applies the remote snapshot for PULL only
fallback_replace_pull_only(dl, dir, exists, rdigest, ldigest) ==
  /\ ~dl
  /\ dir = "PULL"
  /\ exists
  /\ rdigest # None
  /\ rdigest # ldigest

\* a bug that forgets that there is no snapshot to apply without a remote
fallback_replace_without_remote(dl, dir, exists, rdigest, ldigest) ==
  /\ ~dl
  /\ dir \in {"PULL", "BOTH"}
  /\ rdigest # ldigest

\* sync.py lines 87-93: the condition of the fallback replace
fallback_replace(dl, dir, exists, rdigest, ldigest) ==
  /\ ~dl
  /\ dir \in {"PULL", "BOTH"}
  /\ exists
  /\ rdigest # None
  /\ rdigest # ldigest

\* a bug that gives the download precedence over the upload
last_sync_direction_download_first(up, dl) ==
  IF dl THEN "download" ELSE IF up THEN "upload" ELSE "noop"

\* sync.py lines 101-106
last_sync_direction(up, dl) ==
  IF up THEN "upload" ELSE IF dl THEN "download" ELSE "noop"

\* a bug that leaves last_sync_at alone when nothing was transferred
metadata_writes_skip_noop(up, dl, now) ==
  (IF up \/ dl THEN << <<"last_sync_at", now>> >> ELSE <<>>)
    \o << <<"last_sync_direction", last_sync_direction(up, dl)>> >>

\* sync.py lines 100-106: the (key, value) pairs written, in order
metadata_writes(up, dl, now) ==
  << <<"last_sync_at", now>>,
     <<"last_sync_direction", last_sync_direction(up, dl)>> >>

RECURSIVE apply_writes(_, _)
apply_writes(db, writes) ==
  IF writes = <<>> THEN db
  ELSE apply_writes(set_metadata(db, writes[1][1], writes[1][2]), Tail(writes))

\* SyncResult(...) as built at sync.py lines 117-125
SyncResult(st, up, dl) ==
  [uploaded |-> up, downloaded |-> dl,
   message |-> format_message(st, up, dl),
   merged_notes |-> st.notes_merged, deleted_notes |-> st.notes_deleted,
   local_changes |-> st.local_changes, remote_changes |-> st.remote_changes]

\* ------------------------------------------------------------------ state
VARIABLES
  pc,                  \* position of the sync call
  direction,           \* the direction argument
  localDb,             \* local store: logical content (main file + log)
  localFile,           \* local store: bytes of the main file at db_path
  local0,              \* local store's logical content when sync was called
  temp_dir,            \* the temporary directory exists
  remote_temp,         \* the workspace file: None or its bytes
  dirExtra,            \* the directory holds files other than remote_temp
  remoteDb,            \* remote_db: logical content, None before it is opened
  fetched,             \* the bytes backend.download put in the workspace
  remote_exists,
  local_digest_before,
  remote_digest,
  stats,
  uploaded,
  downloaded,
  err,                 \* the exception in flight, "none" when there is none
  result,              \* the SyncResult being returned, None when there is none
  uploadedBytes,       \* the bytes backend.upload received
  trace                \* the collaborator calls made so far, in order

vars ==
  <<pc, direction, localDb, localFile, local0, temp_dir, remote_temp,
    dirExtra, remoteDb, fetched, remote_exists, local_digest_before,
    remote_digest, stats, uploaded, downloaded, err, result, uploadedBytes,
    trace>>

localVars == <<localDb, localFile>>
workspaceVars == <<temp_dir, remote_temp, dirExtra, remoteDb>>
callVars ==
  <<remote_exists, local_digest_before, remote_digest, stats, uploaded,
    downloaded>>
fixedVars == <<direction, local0>>

Init ==
  /\ pc = "idle"
  /\ direction = "BOTH"
  /\ localDb \in StoreContents
  /\ localFile = Some(localDb)
  /\ local0 = localDb
  /\ temp_dir = FALSE
  /\ remote_temp = None
  /\ dirExtra = FALSE
  /\ remoteDb = None
  /\ fetched = None
  /\ remote_exists = FALSE
  /\ local_digest_before = None
  /\ remote_digest = None
  /\ stats = ZeroStats
  /\ uploaded = FALSE
  /\ downloaded = FALSE
  /\ err = "none"
  /\ result = None
  /\ uploadedBytes = None
  /\ trace = <<>>

Range(seq) == { seq[i] : i \in 1..Len(seq) }

Called(event) == trace' = Append(trace, event)

\* a bug that catches the exception, records the sync and re-raises afterwards
Raise_and_record(e) == err' = e /\ pc' = "metadata"

\* an exception raised inside the try block: control passes to finally
Raise(e) == err' = e /\ pc' = "finally"

\* ------------------------------------------------------------------ sync()
\* lines 32-38: the call, mkdtemp, remote_exists = False
Sync(d) ==
  /\ pc = "idle"
  /\ direction' = d
  /\ temp_dir' = TRUE
  /\ remote_exists' = FALSE
  /\ Called("mkdtemp")
  /\ pc' = "digest_before"
  /\ UNCHANGED <<local0, localVars, remote_temp, dirExtra, remoteDb,
                 fetched, local_digest_before, remote_digest, stats, uploaded,
                 downloaded, err, result, uploadedBytes>>

\* line 40: local_digest_before = self._file_digest(local_path)
DigestBefore ==
  /\ pc = "digest_before"
  /\ local_digest_before' = file_digest(localFile)
  /\ Called("digest_local")
  /\ pc' = "download"
  /\ UNCHANGED <<fixedVars, localVars, workspaceVars, fetched, remote_exists,
                 remote_digest, stats, uploaded, downloaded, err, result,
                 uploadedBytes>>

\* line 40 raising (the file cannot be read): the statement is outside the
\* try block, so the exception leaves sync() without running finally
DigestBeforeFails ==
  /\ pc = "digest_before"
  /\ Called("digest_local")
  /\ err' = "OSError"
  /\ pc' = "raised"
  /\ UNCHANGED <<fixedVars, localVars, workspaceVars, fetched, callVars,
                 result, uploadedBytes>>

\* lines 43-44: remote_exists = self.backend.download(remote_temp)
DownloadFound(bytes) ==
  /\ pc = "download"
  /\ Called("download")
  /\ remote_temp' = Some(bytes)
  /\ fetched' = Some(bytes)
  /\ remote_exists' = TRUE
  /\ pc' = "check_pull"
  /\ UNCHANGED <<fixedVars, localVars, temp_dir, dirExtra, remoteDb,
                 local_digest_before, remote_digest, stats, uploaded,
                 downloaded, err, result, uploadedBytes>>

DownloadMissing ==
  /\ pc = "download"
  /\ Called("download")
  /\ remote_exists' = FALSE
  /\ pc' = "check_pull"
  /\ UNCHANGED <<fixedVars, localVars, workspaceVars, fetched,
                 local_digest_before, remote_digest, stats, uploaded,
                 downloaded, err, result, uploadedBytes>>

\* backend.download raising; it may leave a partly written file behind
DownloadFails(partial) ==
  /\ pc = "download"
  /\ Called("download")
  /\ remote_temp' = partial
  /\ Raise("TransportError")
  /\ UNCHANGED <<fixedVars, localVars, temp_dir, dirExtra, remoteDb, fetched,
                 callVars, result, uploadedBytes>>

\* lines 45-46: pull requires an existing remote
CheckPullRaises ==
  /\ pc = "check_pull"
  /\ pull_without_remote(direction, remote_exists)
  /\ Raise("BackendError")
  /\ UNCHANGED <<fixedVars, localVars, workspaceVars, fetched, callVars,
                 result, uploadedBytes, trace>>

CheckPullPasses ==
  /\ pc = "check_pull"
  /\ ~pull_without_remote(direction, remote_exists)
  /\ pc' = "open_remote"
  /\ UNCHANGED <<fixedVars, localVars, workspaceVars, fetched, callVars, err,
                 result, uploadedBytes, trace>>

\* lines 49-50: remote_db = DatabaseManager(remote_temp); ensure_initialized().
\* A missing file is created empty.
OpenRemote ==
  /\ pc = "open_remote"
  /\ Called("ensure_initialized")
  /\ remote_temp' = IF remote_temp = None THEN Some(EmptyStore) ELSE remote_temp
  /\ remoteDb' = remote_temp'
  /\ pc' = "merge"
  /\ UNCHANGED <<fixedVars, localVars, temp_dir, dirExtra, fetched, callVars,
                 err, result, uploadedBytes>>

OpenRemoteFails ==
  /\ pc = "open_remote"
  /\ Called("ensure_initialized")
  /\ Raise("StoreError")
  /\ UNCHANGED <<fixedVars, localVars, workspaceVars, fetched, callVars,
                 result, uploadedBytes>>

\* a bug that runs the merge only when the direction includes a download
Merge_not_for_push(st, merged, flushed) ==
  /\ pc = "merge"
  /\ trace' = IF direction = "PUSH" THEN trace ELSE Append(trace, "merge")
  /\ stats' = IF direction = "PUSH" THEN ZeroStats ELSE st
  /\ localDb' = IF direction # "PUSH" /\ st.local_changes > 0
                  THEN [localDb EXCEPT !.data = merged] ELSE localDb
  /\ remoteDb' = IF direction # "PUSH" /\ st.remote_changes > 0
                   THEN Some([remoteDb[1] EXCEPT !.data = merged]) ELSE remoteDb
  /\ localFile' = IF flushed THEN Some(localDb') ELSE localFile
  /\ remote_temp' = IF flushed THEN remoteDb' ELSE remote_temp
  /\ pc' = "remote_digest"
  /\ UNCHANGED <<fixedVars, temp_dir, dirExtra, fetched, remote_exists,
                 local_digest_before, remote_digest, uploaded, downloaded,
                 err, result, uploadedBytes>>

\* lines 60-61: stats = DatabaseMerger(self.db, remote_db).merge().
\* The merge brings a side to the merged content only if it reports changes
\* for that side; with flushed = FALSE its writes stay in the write-ahead logs.
Merge(st, merged, flushed) ==
  /\ pc = "merge"
  /\ Called("merge")
  /\ stats' = st
  /\ localDb' = IF st.local_changes > 0
                  THEN [localDb EXCEPT !.data = merged] ELSE localDb
  /\ remoteDb' = IF st.remote_changes > 0
                   THEN Some([remoteDb[1] EXCEPT !.data = merged]) ELSE remoteDb
  /\ localFile' = IF flushed THEN Some(localDb') ELSE localFile
  /\ remote_temp' = IF flushed THEN remoteDb' ELSE remote_temp
  /\ pc' = "remote_digest"
  /\ UNCHANGED <<fixedVars, temp_dir, dirExtra, fetched, remote_exists,
                 local_digest_before, remote_digest, uploaded, downloaded,
                 err, result, uploadedBytes>>

MergeFails ==
  /\ pc = "merge"
  /\ Called("merge")
  /\ Raise("StoreError")
  /\ UNCHANGED <<fixedVars, localVars, workspaceVars, fetched, callVars,
                 result, uploadedBytes>>

\* a bug that takes the digest of the local file again, after the merge
RemoteDigest_both ==
  /\ pc = "remote_digest"
  /\ remote_digest' = IF remote_exists THEN file_digest(remote_temp) ELSE None
  /\ local_digest_before' = file_digest(localFile)
  /\ trace' = IF remote_exists THEN Append(trace, "digest_remote") ELSE trace
  /\ pc' = "checkpoint_local"
  /\ UNCHANGED <<fixedVars, localVars, workspaceVars, fetched, remote_exists,
                 stats, uploaded, downloaded, err, result, uploadedBytes>>

\* line 65: remote_digest = self._file_digest(remote_temp) if remote_exists
RemoteDigest ==
  /\ pc = "remote_digest"
  /\ remote_digest' = IF remote_exists THEN file_digest(remote_temp) ELSE None
  /\ trace' = IF remote_exists THEN Append(trace, "digest_remote") ELSE trace
  /\ pc' = "checkpoint_local"
  /\ UNCHANGED <<fixedVars, localVars, workspaceVars, fetched, remote_exists,
                 local_digest_before, stats, uploaded, downloaded, err,
                 result, uploadedBytes>>

\* line 68: self.db.checkpoint()
CheckpointLocal ==
  /\ pc = "checkpoint_local"
  /\ Called("checkpoint_local")
  /\ localFile' = Some(localDb)
  /\ pc' = "checkpoint_remote"
  /\ UNCHANGED <<fixedVars, localDb, workspaceVars, fetched, callVars, err,
                 result, uploadedBytes>>

\* line 69: remote_db.checkpoint()
CheckpointRemote ==
  /\ pc = "checkpoint_remote"
  /\ Called("checkpoint_remote")
  /\ remote_temp' = remoteDb
  /\ pc' = "upload"
  /\ UNCHANGED <<fixedVars, localVars, temp_dir, dirExtra, remoteDb, fetched,
                 callVars, err, result, uploadedBytes>>

CheckpointFails ==
  /\ pc \in {"checkpoint_local", "checkpoint_remote"}
  /\ Called(pc)
  /\ Raise("StoreError")
  /\ UNCHANGED <<fixedVars, localVars, workspaceVars, fetched, callVars,
                 result, uploadedBytes>>

\* lines 71-85: uploaded = False; downloaded = stats.local_changes > 0;
\* self.backend.upload(remote_temp); uploaded = True
Upload ==
  /\ pc = "upload"
  /\ should_upload(direction, stats, remote_exists)
  /\ Called("upload")
  /\ uploadedBytes' = remote_temp
  /\ uploaded' = TRUE
  /\ downloaded' = downloaded_after_merge(stats)
  /\ pc' = "fallback"
  /\ UNCHANGED <<fixedVars, localVars, workspaceVars, fetched, remote_exists,
                 local_digest_before, remote_digest, stats, err, result>>

\* a bug that stamps last_sync_at before the upload is attempted
UploadFails_after_stamp ==
  /\ pc = "upload"
  /\ should_upload(direction, stats, remote_exists)
  /\ trace' = trace \o <<"last_sync_at", "upload">>
  /\ localDb' = set_metadata(localDb, "last_sync_at", current_timestamp)
  /\ uploaded' = FALSE
  /\ downloaded' = downloaded_after_merge(stats)
  /\ Raise("TransportError")
  /\ UNCHANGED <<fixedVars, localFile, workspaceVars, fetched, remote_exists,
                 local_digest_before, remote_digest, stats, result,
                 uploadedBytes>>

\* a bug that applies the remote snapshot before the upload is attempted
UploadFails_after_replace ==
  /\ pc = "upload"
  /\ should_upload(direction, stats, remote_exists)
  /\ trace' = trace \o <<"replace_with", "checkpoint_local", "upload">>
  /\ localDb' = replace_with(localDb, remote_temp)
  /\ localFile' = remote_temp
  /\ uploaded' = FALSE
  /\ downloaded' = downloaded_after_merge(stats)
  /\ Raise("TransportError")
  /\ UNCHANGED <<fixedVars, workspaceVars, fetched, remote_exists,
                 local_digest_before, remote_digest, stats, result,
                 uploadedBytes>>

\* lines 71-84 with backend.upload raising: uploaded = False and
\* downloaded = stats.local_changes > 0 are assigned before the call
UploadFails ==
  /\ pc = "upload"
  /\ should_upload(direction, stats, remote_exists)
  /\ Called("upload")
  /\ uploaded' = FALSE
  /\ downloaded' = downloaded_after_merge(stats)
  /\ Raise("TransportError")
  /\ UNCHANGED <<fixedVars, localVars, workspaceVars, fetched, remote_exists,
                 local_digest_before, remote_digest, stats, result,
                 uploadedBytes>>

\* lines 71-82 when the upload condition is false
UploadSkipped ==
  /\ pc = "upload"
  /\ ~should_upload(direction, stats, remote_exists)
  /\ uploaded' = FALSE
  /\ downloaded' = downloaded_after_merge(stats)
  /\ pc' = "fallback"
  /\ UNCHANGED <<fixedVars, localVars, workspaceVars, fetched, remote_exists,
                 local_digest_before, remote_digest, stats, err, result,
                 uploadedBytes, trace>>

\* lines 87-98: self.db.replace_with(remote_temp); self.db.checkpoint();
\* downloaded = True
FallbackReplace ==
  /\ pc = "fallback"
  /\ fallback_replace(downloaded, direction, remote_exists, remote_digest,
                      local_digest_before)
  /\ trace' = trace \o <<"replace_with", "checkpoint_local">>
  /\ localDb' = replace_with(localDb, remote_temp)
  /\ localFile' = remote_temp
  /\ downloaded' = TRUE
  /\ pc' = "metadata"
  /\ UNCHANGED <<fixedVars, workspaceVars, fetched, remote_exists,
                 local_digest_before, remote_digest, stats, uploaded, err,
                 result, uploadedBytes>>

\* replace_with raising (the local store is left as it was)
FallbackReplaceFails ==
  /\ pc = "fallback"
  /\ fallback_replace(downloaded, direction, remote_exists, remote_digest,
                      local_digest_before)
  /\ Called("replace_with")
  /\ Raise("StoreError")
  /\ UNCHANGED <<fixedVars, localVars, workspaceVars, fetched, callVars,
                 result, uploadedBytes>>

\* line 96 raising: the checkpoint after a replace_with that went through
FallbackCheckpointFails ==
  /\ pc = "fallback"
  /\ fallback_replace(downloaded, direction, remote_exists, remote_digest,
                      local_digest_before)
  /\ trace' = trace \o <<"replace_with", "checkpoint_local">>
  /\ localDb' = replace_with(localDb, remote_temp)
  /\ localFile' = remote_temp
  /\ Raise("StoreError")
  /\ UNCHANGED <<fixedVars, workspaceVars, fetched, callVars, result,
                 uploadedBytes>>

FallbackSkipped ==
  /\ pc = "fallback"
  /\ ~fallback_replace(downloaded, direction, remote_exists, remote_digest,
                       local_digest_before)
  /\ pc' = "metadata"
  /\ UNCHANGED <<fixedVars, localVars, workspaceVars, fetched, callVars, err,
                 result, uploadedBytes, trace>>

\* lines 100-106: set_metadata("last_sync_at", ...) and
\* set_metadata("last_sync_direction", ...)
WriteMetadata ==
  /\ pc = "metadata"
  /\ LET writes == metadata_writes(uploaded, downloaded, current_timestamp)
     IN  /\ localDb' = apply_writes(localDb, writes)
         /\ trace' = trace \o [i \in 1..Len(writes) |-> writes[i][1]]
  /\ pc' = "return"
  /\ UNCHANGED <<fixedVars, localFile, workspaceVars, fetched, callVars, err,
                 result, uploadedBytes>>

\* a set_metadata call raising after n of the writes went through
WriteMetadataFails(n) ==
  /\ pc = "metadata"
  /\ LET writes == metadata_writes(uploaded, downloaded, current_timestamp)
     IN  /\ n < Len(writes)
         /\ localDb' = apply_writes(localDb, SubSeq(writes, 1, n))
         /\ trace' = trace \o [i \in 1..(n + 1) |-> writes[i][1]]
  /\ Raise("StoreError")
  /\ UNCHANGED <<fixedVars, localFile, workspaceVars, fetched, callVars,
                 result, uploadedBytes>>

\* lines 108-125: the message and the SyncResult; return passes through finally
Return ==
  /\ pc = "return"
  /\ result' = Some(SyncResult(stats, uploaded, downloaded))
  /\ pc' = "finally"
  /\ UNCHANGED <<fixedVars, localVars, workspaceVars, fetched, callVars, err,
                 uploadedBytes, trace>>

\* the journal files the open remote_db may still keep next to remote_temp
Journals == IF "ensure_initialized" \in Range(trace) THEN BOOLEAN ELSE {FALSE}

\* lines 126-135: unlink the file if it exists; rmdir the directory, which
\* fails with OSError (swallowed) when the directory is not empty
Finally(journal) ==
  /\ pc = "finally"
  /\ remote_temp' = None
  /\ dirExtra' = journal
  /\ temp_dir' = (temp_dir /\ dirExtra')
  /\ trace' = trace \o (IF remote_temp # None THEN <<"unlink">> ELSE <<>>)
                    \o (IF temp_dir THEN <<"rmdir">> ELSE <<>>)
  /\ pc' = IF err = "none" THEN "returned" ELSE "raised"
  /\ UNCHANGED <<fixedVars, localVars, remoteDb, fetched, callVars, err,
                 result, uploadedBytes>>

Next ==
  \/ \E d \in Directions : Sync(d)
  \/ DigestBefore
  \/ DigestBeforeFails
  \/ \E bytes \in StoreContents : DownloadFound(bytes)
  \/ DownloadMissing
  \/ \E partial \in {None, Some(EmptyStore)} : DownloadFails(partial)
  \/ CheckPullRaises
  \/ CheckPullPasses
  \/ OpenRemote
  \/ OpenRemoteFails
  \/ \E st \in MergeStats, merged \in Data, flushed \in BOOLEAN :
       Merge(st, merged, flushed)
  \/ MergeFails
  \/ RemoteDigest
  \/ CheckpointLocal
  \/ CheckpointRemote
  \/ CheckpointFails
  \/ Upload
  \/ UploadFails
  \/ UploadSkipped
  \/ FallbackReplace
  \/ FallbackReplaceFails
  \/ FallbackCheckpointFails
  \/ FallbackSkipped
  \/ WriteMetadata
  \/ \E n \in {0, 1} : WriteMetadataFails(n)
  \/ Return
  \/ \E journal \in Journals : Finally(journal)

Spec == Init /\ [][Next]_vars

\* ------------------------------------------------------------------ properties
Returned == pc = "returned"
Terminated == pc \in {"returned", "raised"}
WasCalled(event) == event \in Range(trace)

\* backend.download returned False (it neither found a snapshot nor raised)
DownloadReportedMissing ==
  /\ WasCalled("download")
  /\ ~remote_exists
  /\ err # "TransportError"

\* the merge reported nothing for either side, the remote existed and its
\* digest equals the digest of the local file taken before the merge
NothingChanged ==
  /\ stats.local_changes = 0
  /\ stats.remote_changes = 0
  /\ remote_exists
  /\ remote_digest = local_digest_before

\* the merge reported no local change although the remote's digest differs
SnapshotDiffers ==
  /\ direction = "BOTH"
  /\ remote_exists
  /\ stats.local_changes = 0
  /\ remote_digest # local_digest_before

\* C1: after every call, returned or raised, neither the workspace file nor
\* the workspace directory exists any more.
C1_WorkspaceGoneAfterEveryCall ==
  Terminated => (remote_temp = None /\ ~temp_dir)

\* C2: every post-merge digest of the workspace file and every upload is
\* preceded by the checkpoint of the local store and of the remote store.
C2_CheckpointsPrecedeDigestAndUpload ==
  \A i \in 1..Len(trace) :
    trace[i] \in {"digest_remote", "upload"} =>
      /\ \E j \in 1..(i - 1) : trace[j] = "checkpoint_local"
      /\ \E k \in 1..(i - 1) : trace[k] = "checkpoint_remote"

\* C3: a PULL whose download reports no remote snapshot fails with the
\* remote-missing error; no merge, checkpoint, upload, replace or metadata
\* write happens, the local store is untouched, and once the call has ended
\* the workspace is gone.
C3_PullWithoutRemoteFailsCleanly ==
  (direction = "PULL" /\ DownloadReportedMissing) =>
    /\ pc \in {"check_pull", "finally", "raised"}
    /\ pc # "check_pull" => err = "BackendError"
    /\ result = None
    /\ Range(trace) \cap {"merge", "checkpoint_local", "checkpoint_remote",
                          "upload", "replace_with", "last_sync_at",
                          "last_sync_direction"} = {}
    /\ localDb = local0
    /\ localFile = Some(local0)
    /\ Terminated => (remote_temp = None /\ ~temp_dir)

C3_Witness ==
  /\ pc = "raised"
  /\ direction = "PULL"
  /\ DownloadReportedMissing
  /\ err = "BackendError"
  /\ WasCalled("rmdir")

\* C4 as stated: in every direction, nothing changed means uploaded = false,
\* downloaded = false and the message "No changes detected".
C4_NoChangesInEveryDirection ==
  (Returned /\ NothingChanged) =>
    /\ ~result[1].uploaded
    /\ ~result[1].downloaded
    /\ result[1].message = NoChangesDetected

\* C4 amended: when nothing changed, downloaded is false and uploaded is true
\* exactly for PUSH (which always uploads); for PULL and BOTH the message is
\* "No changes detected" when notes_merged and notes_deleted are 0 as well.
C4_NoChangesUnlessPush ==
  (Returned /\ NothingChanged) =>
    /\ ~result[1].downloaded
    /\ result[1].uploaded <=> direction = "PUSH"
    /\ (direction # "PUSH" /\ stats.notes_merged = 0 /\ stats.notes_deleted = 0)
         => result[1].message = NoChangesDetected

C4_Witness ==
  /\ Returned
  /\ NothingChanged
  /\ direction = "BOTH"
  /\ ~result[1].uploaded
  /\ ~result[1].downloaded
  /\ result[1].message = NoChangesDetected

\* C5 as stated: the fallback replace runs, downloaded = true, and on return
\* the local store's content is exactly the content that was fetched.
C5_LocalEqualsFetchedExactly ==
  (Returned /\ SnapshotDiffers) =>
    /\ WasCalled("replace_with")
    /\ result[1].downloaded
    /\ Some(localDb) = fetched

\* C5 amended: the fallback replace runs, downloaded = true, and on return the
\* local store holds the flushed post-merge content of the workspace file,
\* except for last_sync_at and last_sync_direction, which the metadata write
\* of the same call has set afterwards.
C5_LocalEqualsWorkspaceButMetadata ==
  (Returned /\ SnapshotDiffers) =>
    /\ WasCalled("replace_with")
    /\ result[1].downloaded
    /\ localDb.data = remoteDb[1].data
    /\ localDb.last_sync_at = current_timestamp
    /\ localDb.last_sync_direction \in {"upload", "download"}
    /\ Some(localDb) # fetched

C5_Witness ==
  /\ Returned
  /\ SnapshotDiffers
  /\ WasCalled("replace_with")
  /\ localDb.data = fetched[1].data
  /\ localDb.data # local0.data

\* C6: a returning PUSH or BOTH call that found no remote has uploaded = true
\* and has invoked backend.upload, whatever remote_changes was.
C6_MissingRemoteIsUploaded ==
  (Returned /\ direction \in {"PUSH", "BOTH"} /\ ~remote_exists) =>
    /\ result[1].uploaded
    /\ WasCalled("upload")
    /\ uploadedBytes # None

C6_Witness ==
  /\ Returned
  /\ direction = "BOTH"
  /\ ~remote_exists
  /\ stats.remote_changes = 0
  /\ result[1].uploaded
  /\ WasCalled("upload")

\* C7: in every direction, local_changes > 0 gives downloaded = true in the
\* result.
C7_LocalChangesMeanDownloaded ==
  (Returned /\ result[1].local_changes > 0) => result[1].downloaded

C7_Witness ==
  /\ Returned
  /\ direction = "PUSH"
  /\ result[1].local_changes > 0
  /\ result[1].downloaded
  /\ ~WasCalled("replace_with")

\* C8: every call that returns a result has written last_sync_at during the
\* call, no-op outcomes included.
C8_LastSyncAtAlwaysWritten ==
  Returned =>
    /\ WasCalled("last_sync_at")
    /\ localDb.last_sync_at = current_timestamp

C8_Witness ==
  /\ Returned
  /\ ~result[1].uploaded
  /\ ~result[1].downloaded
  /\ WasCalled("last_sync_at")
  /\ localDb.last_sync_at = current_timestamp
  /\ local0.last_sync_at # current_timestamp

\* C9: after a successful call last_sync_direction is "upload" if uploaded
\* (also when downloaded too), else "download" if downloaded, else "noop".
C9_DirectionAgreesWithFlags ==
  Returned =>
    /\ result[1].uploaded => localDb.last_sync_direction = "upload"
    /\ (~result[1].uploaded /\ result[1].downloaded)
         => localDb.last_sync_direction = "download"
    /\ (~result[1].uploaded /\ ~result[1].downloaded)
         => localDb.last_sync_direction = "noop"

C9_Witness ==
  /\ Returned
  /\ result[1].uploaded
  /\ result[1].downloaded
  /\ localDb.last_sync_direction = "upload"

\* the message the claim describes: the applicable clauses in the fixed
\* order, joined by ", ", the first letter upper-cased and nothing else changed
ExpectedMessage(up, dl, merged, deleted) ==
  LET clauses ==
        << [on |-> up, text |-> UploadedClause],
           [on |-> dl, text |-> DownloadedClause],
           [on |-> merged # 0, text |-> MergedClause(merged)],
           [on |-> deleted # 0, text |-> DeletedClause(deleted)] >>
      applicable == SelectSeq(clauses, LAMBDA c : c.on)
      joined == Join(CommaSpace, [i \in 1..Len(applicable) |-> applicable[i].text])
  IN  IF ~up /\ ~dl /\ merged = 0 /\ deleted = 0 THEN NoChangesDetected
      ELSE <<Upper(joined[1])>> \o SubSeq(joined, 2, Len(joined))

\* C10: the message depends on (uploaded, downloaded, notes_merged,
\* notes_deleted) only; it is "No changes detected" exactly when all four are
\* false or zero, and otherwise the applicable clauses in the fixed order.
C10_MessageFormat ==
  Returned =>
    /\ result[1].message =
         ExpectedMessage(result[1].uploaded, result[1].downloaded,
                         result[1].merged_notes, result[1].deleted_notes)
    /\ result[1].message = NoChangesDetected <=>
         /\ ~result[1].uploaded
         /\ ~result[1].downloaded
         /\ result[1].merged_notes = 0
         /\ result[1].deleted_notes = 0

\* (uploaded = false, downloaded = false, notes_merged = 3, notes_deleted = 1)
\* gives "Merged 3 notes, propagated 1 deletions"
C10_Witness ==
  /\ Returned
  /\ ~result[1].uploaded
  /\ ~result[1].downloaded
  /\ result[1].merged_notes = 3
  /\ result[1].deleted_notes = 1
  /\ result[1].message =
       <<"M","e","r","g","e","d"," ","3"," ","n","o","t","e","s",","," ",
         "p","r","o","p","a","g","a","t","e","d"," ","1"," ","d","e","l","e",
         "t","i","o","n","s">>

\* ------------------------------------------------------------------ call order
Count(event) == Cardinality({ i \in 1..Len(trace) : trace[i] = event })

\* the calls made by the protocol proper, cleanup left out
ProtocolCalls == SelectSeq(trace, LAMBDA e : e \notin {"unlink", "rmdir"})
LastCall ==
  IF ProtocolCalls = <<>> THEN "none" ELSE ProtocolCalls[Len(ProtocolCalls)]

\* every occurrence of an event of later follows an occurrence of earlier
Precedes(earlier, later) ==
  \A i \in 1..Len(trace) :
    trace[i] \in later => \E j \in 1..(i - 1) : trace[j] = earlier

BackendCalls == {"download", "upload"}
StoreCalls ==
  {"ensure_initialized", "merge", "checkpoint_local", "checkpoint_remote",
   "replace_with", "last_sync_at", "last_sync_direction"}

\* one step of a call in which an exception is in flight: nothing but cleanup
\* is called, the stores and the backend are left alone, no result appears
\* and the exception stays the same
OnlyCleanupAfterError ==
  err # "none" =>
    /\ err' = err
    /\ result = None /\ result' = None
    /\ pc' = "raised"
    /\ \A i \in (Len(trace) + 1)..Len(trace') : trace'[i] \in {"unlink", "rmdir"}
    /\ UNCHANGED <<localDb, localFile, remoteDb, uploadedBytes>>

\* the exception in flight is of the kind the last protocol call raises, and
\* a call ends either raising it or returning a result
ErrorIsOfLastCall ==
  /\ err = "TransportError" => LastCall \in BackendCalls
  /\ err = "StoreError" => LastCall \in StoreCalls
  /\ err # "none" => pc \in {"finally", "raised"}
  /\ pc = "raised" => (err # "none" /\ result = None)
  /\ pc = "returned" => (err = "none" /\ result # None)

\* C11: download and upload are each invoked at most once per call; once one
\* of them or a store operation has raised, the call does nothing but cleanup,
\* returns no SyncResult and ends with that same error.
C11_NoRetryErrorPropagates ==
  [][ /\ OnlyCleanupAfterError
      /\ Count("download")' <= 1
      /\ Count("upload")' <= 1
      /\ ErrorIsOfLastCall' ]_vars

C11_Witness ==
  /\ pc = "raised"
  /\ err = "TransportError"
  /\ LastCall = "upload"
  /\ Count("upload") = 1
  /\ Count("download") = 1
  /\ result = None
  /\ WasCalled("rmdir")

\* C12: BOTH, an existing remote, all statistics zero and equal digests give
\* uploaded = false, downloaded = false, last_sync_direction "noop", and
\* neither backend.upload nor replace_with is invoked.
C12_BothNoop ==
  (Returned /\ direction = "BOTH" /\ NothingChanged /\ stats = ZeroStats) =>
    /\ ~result[1].uploaded
    /\ ~result[1].downloaded
    /\ localDb.last_sync_direction = "noop"
    /\ ~WasCalled("upload")
    /\ uploadedBytes = None
    /\ ~WasCalled("replace_with")
    /\ localDb.data = local0.data

C12_Witness ==
  /\ Returned
  /\ direction = "BOTH"
  /\ NothingChanged
  /\ stats = ZeroStats
  /\ localDb.last_sync_direction = "noop"
  /\ local0.last_sync_direction # "noop"
  /\ ~WasCalled("upload")
  /\ ~WasCalled("replace_with")

\* C13: BOTH without a remote snapshot, local_changes = 0 and
\* remote_changes > 0 give uploaded = true, downloaded = false and
\* last_sync_direction "upload"; remote_digest is None and the fallback
\* replace does not run.
C13_BothCreatesRemote ==
  (Returned /\ direction = "BOTH" /\ ~remote_exists
     /\ stats.local_changes = 0 /\ stats.remote_changes > 0) =>
    /\ result[1].uploaded
    /\ ~result[1].downloaded
    /\ localDb.last_sync_direction = "upload"
    /\ remote_digest = None
    /\ ~WasCalled("digest_remote")
    /\ ~WasCalled("replace_with")

C13_Witness ==
  /\ Returned
  /\ direction = "BOTH"
  /\ ~remote_exists
  /\ local0.data = 0
  /\ stats.local_changes = 0
  /\ stats.remote_changes > 0
  /\ result[1].uploaded
  /\ ~result[1].downloaded
  /\ localDb.last_sync_direction = "upload"
  /\ remote_digest # local_digest_before

\* the merge has returned its statistics
Merged == WasCalled("checkpoint_local")

\* the call has gone through the upload decision of lines 80-85
UploadDecided ==
  /\ WasCalled("checkpoint_remote")
  /\ pc # "upload"
  /\ ~(err # "none" /\ LastCall = "checkpoint_remote")

\* the call has gone through the fallback decision of lines 87-98
FallbackDecided ==
  \/ pc \in {"metadata", "return"}
  \/ result # None
  \/ WasCalled("replace_with")
  \/ WasCalled("last_sync_at")

\* the condition the claims give for the upload
UploadExpected ==
  \/ direction = "PUSH"
  \/ direction = "BOTH" /\ (stats.remote_changes > 0 \/ ~remote_exists)

\* the condition the claims give for the fallback replace
ReplaceExpected ==
  /\ stats.local_changes = 0
  /\ direction \in {"PULL", "BOTH"}
  /\ remote_exists
  /\ remote_digest # local_digest_before

\* C14: in a call that reaches the decision step, backend.upload is invoked
\* if and only if the direction is PUSH, or BOTH with remote_changes > 0 or no
\* remote; never for PULL, always for PUSH.
C14_UploadIffRequested ==
  UploadDecided =>
    /\ WasCalled("upload") <=> UploadExpected
    /\ direction = "PULL" => ~WasCalled("upload")
    /\ direction = "PUSH" => WasCalled("upload")
    /\ (err = "none" /\ pc # "fallback" /\ pc # "upload")
         => (uploaded <=> WasCalled("upload"))

C14_Witness ==
  /\ Returned
  /\ direction = "PUSH"
  /\ remote_exists
  /\ stats = ZeroStats
  /\ remote_digest = local_digest_before
  /\ WasCalled("upload")
  /\ result[1].uploaded

\* C15 as stated: replace_with is invoked at most once, and exactly when
\* local_changes = 0, the direction is PULL or BOTH, the remote existed and
\* the digests differ.
C15_ReplaceExactlyWhenExpected ==
  /\ Count("replace_with") <= 1
  /\ (Terminated /\ Merged) => (WasCalled("replace_with") <=> ReplaceExpected)

\* C15 amended: replace_with is invoked at most once and only when
\* local_changes = 0, the direction is PULL or BOTH, the remote existed and
\* the digests differ; in a call that gets as far as the fallback step (no
\* checkpoint or upload raised before it) it is invoked exactly then.
C15_ReplaceExactlyWhenReached ==
  /\ Count("replace_with") <= 1
  /\ WasCalled("replace_with") => ReplaceExpected
  /\ FallbackDecided => (WasCalled("replace_with") <=> ReplaceExpected)

C15_Witness ==
  /\ Returned
  /\ direction = "PULL"
  /\ ReplaceExpected
  /\ Count("replace_with") = 1
  /\ result[1].downloaded

\* C16: local_digest_before is taken from the local file before
\* backend.download is invoked and before the merge changes the local store,
\* and it is not computed again later in the call.
C16_DigestBeforeFetchAndMerge ==
  /\ Count("digest_local") <= 1
  /\ Precedes("digest_local", {"download", "merge"})
  /\ WasCalled("download") => local_digest_before = Some(Sha256(local0))

C16_Witness ==
  /\ Returned
  /\ stats.local_changes > 0
  /\ localFile # Some(local0)
  /\ localDb.data # local0.data
  /\ local_digest_before = Some(Sha256(local0))
  /\ Count("digest_local") = 1

\* backend.download returned, and the PULL-without-remote check let it pass
DownloadPassed ==
  /\ WasCalled("download")
  /\ ~(err = "TransportError" /\ LastCall = "download")
  /\ err # "BackendError"

\* the remote store was opened and initialised without an error
RemoteOpened ==
  /\ WasCalled("ensure_initialized")
  /\ ~(err # "none" /\ LastCall = "ensure_initialized")

MergeComesFirst ==
  Precedes("merge", {"upload", "replace_with", "last_sync_at",
                     "last_sync_direction"})

\* C17 as stated: the merge is invoked exactly once in every call whose
\* download succeeded and that passed the PULL check, in every direction, and
\* before any upload, fallback replace or metadata write.
C17_MergeOnceAfterDownload ==
  /\ MergeComesFirst
  /\ (Terminated /\ DownloadPassed) => Count("merge") = 1

\* C17 amended: the merge is invoked at most once, before any upload,
\* fallback replace or metadata write, and exactly once in every call whose
\* download succeeded, that passed the PULL check and whose remote store was
\* opened without an error, in every direction.
C17_MergeOnceAfterOpen ==
  /\ MergeComesFirst
  /\ Count("merge") <= 1
  /\ (Terminated /\ DownloadPassed /\ RemoteOpened) => Count("merge") = 1

\* a PUSH call whose merge has changed the local store
C17_Witness ==
  /\ Returned
  /\ direction = "PUSH"
  /\ Count("merge") = 1
  /\ stats.local_changes > 0
  /\ localDb.data # local0.data

MetadataKept ==
  /\ localDb.last_sync_at = local0.last_sync_at
  /\ localDb.last_sync_direction = local0.last_sync_direction

\* the fallback replace has gone through
Replaced == WasCalled("replace_with") /\ LastCall # "replace_with"

\* C18 as stated: a call that ends with an error of download, PULL check,
\* merge, checkpoint, upload or replace leaves last_sync_at and
\* last_sync_direction as they were before the call.
C18_MetadataKeptOnError ==
  (pc = "raised" /\ LastCall \notin {"last_sync_at", "last_sync_direction"})
    => MetadataKept

\* C18 amended: set_metadata is called only after upload and fallback replace
\* have completed, and a call that ends with an error raised before the
\* fallback replace has gone through leaves last_sync_at and
\* last_sync_direction as they were before the call.
C18_MetadataKeptUntilReplaced ==
  /\ \A i \in 1..Len(trace) :
       trace[i] \in {"upload", "replace_with"} =>
         \A j \in 1..(i - 1) : trace[j] \notin {"last_sync_at", "last_sync_direction"}
  /\ (err # "none" /\ WasCalled("last_sync_at")) =>
       (err = "StoreError" /\ LastCall \in {"last_sync_at", "last_sync_direction"})
  /\ (err # "none" /\ ~WasCalled("last_sync_at") /\ ~Replaced) => MetadataKept

C18_Witness ==
  /\ pc = "raised"
  /\ err = "TransportError"
  /\ LastCall = "upload"
  /\ stats.local_changes > 0
  /\ localDb.data # local0.data
  /\ local0.last_sync_at = "earlier"
  /\ MetadataKept

\* C19: backend.upload runs before the fallback replace; when the upload
\* fails the local store is not replaced in that call, it holds what the
\* merge left.
C19_UploadBeforeReplace ==
  /\ \A i \in 1..Len(trace), j \in 1..Len(trace) :
       (trace[i] = "upload" /\ trace[j] = "replace_with") => i < j
  /\ (err = "TransportError" /\ LastCall = "upload") =>
       /\ ~WasCalled("replace_with")
       /\ MetadataKept
       /\ stats.local_changes = 0 => localDb = local0

C19_Witness ==
  /\ pc = "raised"
  /\ err = "TransportError"
  /\ LastCall = "upload"
  /\ direction = "BOTH"
  /\ ReplaceExpected
  /\ Some(localDb) # fetched
  /\ ~WasCalled("replace_with")

====
